---- MODULE Spec2Model ----
(***************************************************************************)
(* State-machine model of the branch-generation engine of                  *)
(* src/fractal_tree.py (class FractalTree and SettingsDialog).             *)
(*                                                                         *)
(* Numbers.  Python floats are modelled in fixed point: a real value v is  *)
(* the integer v * Scale (thousandths).  Coordinates, lengths, angles      *)
(* (degrees), thicknesses and the factors of the configuration are all in  *)
(* this unit.  math.cos / math.sin are Bhaskara's rational approximation   *)
(* on the angle rounded to a whole degree.                                 *)
(*                                                                         *)
(* Colors.  A '#rrggbb' string is the sequence of its six hex digits.      *)
(*                                                                         *)
(* Randomness.  The module-level generator behind random.random() is a     *)
(* state variable, rng, stepped by a counter generator modulo RngModulus;  *)
(* the start state is arbitrary.                                           *)
(***************************************************************************)
EXTENDS Integers, Sequences, FiniteSets, TLC

\* ---------------------------------------------------------------- bounds
\* largest max_depth a constructor argument or the settings dialog supplies
DepthBound == 4
\* canvas clicks counted before the model stops counting further clicks
MaxClicks == 2
\* number of states of the random generator
RngModulus == 2
\* configuration changes (settings, palette, grid) explored in one run
MaxConfigChanges == 1

\* fixed-point resolution of the float model: 1.0 is Scale
Scale == 1000
\* Python's None in the parent_id field
None == -1

VARIABLES
    branches,       \* self.branches: sequence of branch records
    current_depth,  \* self.current_depth
    next_id,        \* self.next_id
    tree_center,    \* self.tree_center
    click_count,    \* self.click_count
    params,         \* self.params (the fields the engine reads)
    rng,            \* state of the generator behind random.random()
    report,         \* message box shown by the last handler, "none" if none
    lastOp,         \* the engine operation the last handler ran
    grown,          \* successful grow_one_level calls since the last plant/reset
    config_changes, \* configuration changes made so far
    loop_iters,     \* while-loop iterations of the handler just run (grow_full_tree)
    twin,           \* a second FractalTree instance (engine value), when there is one
    out             \* the last direct call of a pure method and what it returned

vars == <<branches, current_depth, next_id, tree_center, click_count, params,
          rng, report, lastOp, grown, config_changes, loop_iters, twin, out>>

\* ------------------------------------------------------------ arithmetic
R(n) == n * Scale

Min(a, b) == IF a < b THEN a ELSE b

Max(a, b) == IF a < b THEN b ELSE a

\* integer quotient rounded toward zero, as int() truncates
TruncDiv(a, b) == IF a < 0 THEN -((-a) \div b) ELSE a \div b

\* product of two fixed-point values
FMul(a, b) == TruncDiv(a * b, Scale)

\* sin of a whole number of degrees, in thousandths (Bhaskara I)
SinDeg(d) ==
    LET x == d % 360
        h == IF x <= 180 THEN x ELSE x - 180
        p == h * (180 - h)
        v == (4 * Scale * p) \div (40500 - p)
    IN  IF x <= 180 THEN v ELSE -v

CosDeg(d) == SinDeg(d + 90)

\* fixed-point angle rounded to whole degrees
WholeDegrees(angle) == (angle + (Scale \div 2)) \div Scale

\* --------------------------------------------------------------- colors
HexByte(color, i) == 16 * color[i] + color[i + 1]

FormatHex(r, g, b) ==
    <<r \div 16, r % 16, g \div 16, g % 16, b \div 16, b % 16>>

\* interpolate_color with factor = num / den, 0 <= num < den
interpolate_color(color1, color2, num, den) ==
    LET r1 == HexByte(color1, 1)
        g1 == HexByte(color1, 3)
        b1 == HexByte(color1, 5)
        r2 == HexByte(color2, 1)
        g2 == HexByte(color2, 3)
        b2 == HexByte(color2, 5)
        r == TruncDiv(r1 * den + (r2 - r1) * num, den)
        g == TruncDiv(g1 * den + (g2 - g1) * num, den)
        b == TruncDiv(b1 * den + (b2 - b1) * num, den)
    IN  FormatHex(r, g, b)

\* faulty variant of get_branch_color: leaf_colors[0] instead of leaf_colors[-1]
get_branch_color_first(p, depth) ==
    IF depth = 0 THEN p.trunk_color
    ELSE IF depth >= p.max_depth THEN p.leaf_colors[1]
    ELSE LET n == Len(p.leaf_colors)
             idx1 == (depth * (n - 1)) \div p.max_depth
             num == (depth * (n - 1)) % p.max_depth
             idx2 == Min(idx1 + 1, n - 1)
         IN  interpolate_color(p.leaf_colors[idx1 + 1], p.leaf_colors[idx2 + 1],
                               num, p.max_depth)

\* FractalTree.get_branch_color(depth)
get_branch_color(p, depth) ==
    IF depth = 0 THEN p.trunk_color
    ELSE IF depth >= p.max_depth THEN p.leaf_colors[Len(p.leaf_colors)]
    ELSE LET n == Len(p.leaf_colors)
             \* color_index = depth / max_depth * (n - 1), kept as a fraction
             idx1 == (depth * (n - 1)) \div p.max_depth
             num == (depth * (n - 1)) % p.max_depth
             idx2 == Min(idx1 + 1, n - 1)
         IN  interpolate_color(p.leaf_colors[idx1 + 1], p.leaf_colors[idx2 + 1],
                               num, p.max_depth)

\* ------------------------------------------------------------ thickness
RECURSIVE FPow(_, _)
FPow(factor, depth) ==
    IF depth = 0 THEN Scale ELSE FMul(FPow(factor, depth - 1), factor)

\* faulty variant of calculate_thickness: the floor max(1, ...) is missing
calculate_thickness_no_floor(p, depth) ==
    FMul(p.trunk_thickness, FPow(p.thickness_factor, depth))

\* FractalTree.calculate_thickness(depth)
calculate_thickness(p, depth) ==
    Max(Scale, FMul(p.trunk_thickness, FPow(p.thickness_factor, depth)))

\* ------------------------------------------------------ random.random()
\* state of the generator after k further draws
RngAfter(s, k) == (s + k) % RngModulus

\* the k-th draw from state s, a value in [0, 1)
random_random(s, k) == (RngAfter(s, k) * Scale) \div RngModulus

\* ------------------------------------------------------------ the engine
\* An engine value e holds the fields of self other than params:
\* [branches, current_depth, next_id, tree_center, click_count, rng, report,
\*  grown, loop_iters].  The methods below are functions from the engine value
\* (and the configuration p) to the engine value the method leaves.

\* the trunk record plant_trunk builds; id is self.next_id, just reset to 0
trunk_branch(p, x, y) ==
    LET start_y == y
        end_y == IF p.upward_angle THEN y - p.base_length ELSE y + p.base_length
        base_angle == IF p.upward_angle THEN R(270) ELSE R(90)
    IN  [id |-> 0,
         parent_id |-> None,
         start |-> <<x, start_y>>,
         end |-> <<x, end_y>>,
         depth |-> 0,
         length |-> p.base_length,
         angle |-> base_angle,
         thickness |-> p.trunk_thickness,
         color |-> p.trunk_color]

\* faulty variant of plant_trunk: the old collection is not cleared
plant_trunk_keep(e, p, x, y) ==
    [e EXCEPT !.branches = Append(@, trunk_branch(p, x, y)),
              !.next_id = 1,
              !.current_depth = 0,
              !.tree_center = <<x, y>>,
              !.grown = 0]

\* FractalTree.plant_trunk(x, y)
plant_trunk(e, p, x, y) ==
    [e EXCEPT !.branches = <<trunk_branch(p, x, y)>>,
              !.next_id = 1,
              !.current_depth = 0,
              !.tree_center = <<x, y>>,
              !.grown = 0]

\* faulty variant of terminal_branches: every generation spawns again
terminal_branches_all(e) ==
    SelectSeq(e.branches, LAMBDA b : b.depth <= e.current_depth)

\* terminal_branches = [b for b in self.branches if b['depth'] == self.current_depth]
terminal_branches(e) ==
    SelectSeq(e.branches, LAMBDA b : b.depth = e.current_depth)

\* faulty variant of angle_offsets: positive offset first
angle_offsets_swapped(p) == <<p.angle_variation, -p.angle_variation>>

\* [-angle_variation, angle_variation]
angle_offsets(p) == <<-p.angle_variation, p.angle_variation>>

\* faulty variant of child_id: next_id is not incremented inside the loop
child_id_stale(e, j) == e.next_id

\* 'id': self.next_id, which has been incremented once per earlier branch
child_id(e, j) == e.next_id + (j - 1)

\* faulty variant of child_parent_id: the parent's own parent link is copied
child_parent_id_copied(parent) == parent.parent_id

\* 'parent_id': parent['id']
child_parent_id(parent) == parent.id

\* faulty variant of angle_jitter: the randomness factor is dropped
angle_jitter_unscaled(u, p) == Scale + FMul(u - (Scale \div 2), 2 * Scale)

\* (1 + (random.random() - 0.5) * self.params['randomness'] * 2)
angle_jitter(u, p) ==
    Scale + FMul(FMul(u - (Scale \div 2), p.randomness), 2 * Scale)

\* (1 + (random.random() - 0.5) * self.params['randomness'])
length_jitter(u, p) == Scale + FMul(u - (Scale \div 2), p.randomness)

\* the j-th branch created by one grow_one_level call (j = 1, 2, ...):
\* parent is terminal[(j + 1) \div 2], the offset alternates -A, +A, and the
\* call has made 2 * (j - 1) draws before this branch's two draws
new_branch(e, p, terminal, j) ==
    LET parent == terminal[(j + 1) \div 2]
        angle_offset == angle_offsets(p)[2 - (j % 2)]
        px == parent.end[1]
        py == parent.end[2]
        u1 == random_random(e.rng, 2 * j - 1)
        u2 == random_random(e.rng, 2 * j)
        angle_variation == FMul(angle_offset, angle_jitter(u1, p))
        new_angle == parent.angle + angle_variation
        base_len == FMul(parent.length, p.length_factor)
        new_length == FMul(base_len, length_jitter(u2, p))
        end_x == px + FMul(CosDeg(WholeDegrees(new_angle)), new_length)
        end_y == py + FMul(SinDeg(WholeDegrees(new_angle)), new_length)
    IN  [id |-> child_id(e, j),
         parent_id |-> child_parent_id(parent),
         start |-> <<px, py>>,
         end |-> <<end_x, end_y>>,
         depth |-> e.current_depth + 1,
         length |-> new_length,
         angle |-> new_angle,
         thickness |-> calculate_thickness(p, e.current_depth + 1),
         color |-> get_branch_color(p, e.current_depth + 1)]

\* the list new_branches built by the two nested loops
new_branches(e, p) ==
    LET terminal == terminal_branches(e)
    IN  [j \in 1..(2 * Len(terminal)) |-> new_branch(e, p, terminal, j)]

\* faulty variant of max_depth_reached: strict comparison
max_depth_reached_strict(e, p) == e.current_depth > p.max_depth

\* self.current_depth >= self.params['max_depth']
max_depth_reached(e, p) == e.current_depth >= p.max_depth

\* faulty variant of append_branches: new branches are inserted in front
append_branches_front(old, new) == new \o old

\* for branch in new_branches: self.branches.append(branch)
append_branches(old, new) == old \o new

\* FractalTree.grow_one_level()
grow_one_level(e, p) ==
    IF Len(e.branches) = 0
    THEN [e EXCEPT !.report = "plant_first"]
    ELSE IF max_depth_reached(e, p)
    THEN [e EXCEPT !.report = "max_depth"]
    ELSE LET new == new_branches(e, p)
         IN  [e EXCEPT !.branches = append_branches(@, new),
                       !.next_id = @ + Len(new),
                       !.rng = RngAfter(@, 2 * Len(new)),
                       !.current_depth = @ + 1,
                       !.grown = @ + 1]

\* the while loop of grow_full_tree; fuel only keeps the evaluation finite
\* and exceeds every iteration count the loop can reach
LoopFuel == DepthBound + 2

RECURSIVE grow_loop(_, _, _)
grow_loop(e, p, fuel) ==
    IF e.current_depth < p.max_depth /\ fuel > 0
    THEN grow_loop([grow_one_level(e, p) EXCEPT !.loop_iters = @ + 1], p, fuel - 1)
    ELSE e

\* faulty variant of grow_full_tree: the depth counter restarts at 0
grow_full_tree_restart(e, p) ==
    IF Len(e.branches) = 0
    THEN [e EXCEPT !.report = "plant_first", !.loop_iters = 0]
    ELSE grow_loop([e EXCEPT !.loop_iters = 0, !.current_depth = 0], p, LoopFuel)

\* FractalTree.grow_full_tree()
grow_full_tree(e, p) ==
    IF Len(e.branches) = 0
    THEN [e EXCEPT !.report = "plant_first", !.loop_iters = 0]
    ELSE grow_loop([e EXCEPT !.loop_iters = 0], p, LoopFuel)

\* faulty variant of reset_tree: the identifier counter is not cleared
reset_tree_keep_ids(e) ==
    [e EXCEPT !.click_count = 0,
              !.current_depth = 0,
              !.branches = <<>>,
              !.grown = 0]

\* FractalTree.reset_tree()
reset_tree(e) ==
    [e EXCEPT !.click_count = 0,
              !.current_depth = 0,
              !.branches = <<>>,
              !.next_id = 0,
              !.grown = 0]

\* colorsys.hsv_to_rgb(h, s, v), as called by randomize_colors
hsv_to_rgb(h, s, v) ==
    IF s = 0 THEN <<v, v, v>>
    ELSE LET i == (h * 6) \div Scale
             f == (h * 6) - i * Scale
             pp == FMul(v, Scale - s)
             q == FMul(v, Scale - FMul(s, f))
             t == FMul(v, Scale - FMul(s, Scale - f))
             k == i % 6
         IN  CASE k = 0 -> <<v, t, pp>>
               [] k = 1 -> <<q, v, pp>>
               [] k = 2 -> <<pp, v, t>>
               [] k = 3 -> <<pp, q, v>>
               [] k = 4 -> <<t, pp, v>>
               [] OTHER -> <<v, pp, q>>

\* the i-th leaf color randomize_colors generates (i = 0, 1, 2) from
\* generator state s: f'#{int(rgb[0] * 255):02x}...'
random_leaf_color(s, i) ==
    LET base_hue == random_random(s, 1)
        hue == (base_hue + i * (Scale \div 10)) % Scale
        saturation == (6 * Scale) \div 10 + FMul(random_random(s, 2 + 2 * i), (3 * Scale) \div 10)
        value == (5 * Scale) \div 10 + FMul(random_random(s, 3 + 2 * i), (3 * Scale) \div 10)
        rgb == hsv_to_rgb(hue, saturation, value)
    IN  FormatHex((rgb[1] * 255) \div Scale, (rgb[2] * 255) \div Scale,
                  (rgb[3] * 255) \div Scale)

\* the configuration FractalTree.randomize_colors() leaves ('#8B4513' trunk)
randomize_colors(p, s) ==
    [p EXCEPT !.trunk_color = <<8, 11, 4, 5, 1, 3>>,
              !.leaf_colors = [i \in 1..3 |-> random_leaf_color(s, i - 1)]]

\* the configuration SettingsDialog.apply_settings() leaves, given the values
\* v of the seven sliders and the two check boxes
apply_settings(p, v) ==
    [p EXCEPT !.base_length = v.base_length,
              !.angle_variation = v.angle_variation,
              !.length_factor = v.length_factor,
              !.max_depth = v.max_depth,
              !.trunk_thickness = v.trunk_thickness,
              !.thickness_factor = v.thickness_factor,
              !.randomness = v.randomness,
              !.upward_angle = v.upward_angle,
              !.smooth_lines = v.smooth_lines]

\* ---------------------------------------------------------------- inputs
\* the default configuration of FractalTree.__init__
DefaultParams ==
    [trunk_color |-> <<7, 12, 2, 13, 1, 2>>,
     leaf_colors |-> << <<1, 6, 6, 5, 3, 4>>, <<2, 2, 12, 5, 5, 14>>,
                        <<15, 5, 9, 14, 0, 11>> >>,
     base_length |-> R(180),
     angle_variation |-> R(35),
     length_factor |-> (65 * Scale) \div 100,
     max_depth |-> 8,
     trunk_thickness |-> R(20),
     thickness_factor |-> (75 * Scale) \div 100,
     randomness |-> Scale \div 10,
     upward_angle |-> TRUE,
     smooth_lines |-> TRUE,
     show_grid |-> FALSE]

\* configurations the constructor is given: the defaults with max_depth and
\* randomness passed as keyword arguments
InitParams ==
    { [DefaultParams EXCEPT !.max_depth = d, !.randomness = r] :
        d \in {0, DepthBound}, r \in {0, Scale \div 10} }
    \ { [DefaultParams EXCEPT !.max_depth = 0, !.randomness = 0] }

\* slider positions of the settings dialog (each inside its slider's range)
SettingsInputs ==
    { [base_length |-> R(180), angle_variation |-> R(35),
       length_factor |-> (65 * Scale) \div 100, max_depth |-> d,
       trunk_thickness |-> R(20), thickness_factor |-> (75 * Scale) \div 100,
       randomness |-> 0, upward_angle |-> TRUE, smooth_lines |-> TRUE] :
        d \in {3, Min(15, DepthBound)} }
    \cup
    { [base_length |-> R(100), angle_variation |-> R(20),
       length_factor |-> (5 * Scale) \div 10, max_depth |-> 3,
       trunk_thickness |-> R(5), thickness_factor |-> (5 * Scale) \div 10,
       randomness |-> (3 * Scale) \div 10, upward_angle |-> FALSE,
       smooth_lines |-> FALSE] }

\* canvas points a click or the plant dialog supplies (pixels)
PlantPoints == { <<600, 700>>, <<300, 400>> }

\* ------------------------------------------------------------- handlers
Self ==
    [branches |-> branches, current_depth |-> current_depth, next_id |-> next_id,
     tree_center |-> tree_center, click_count |-> click_count, rng |-> rng,
     report |-> "none", grown |-> grown, loop_iters |-> 0]

\* no second instance, no direct call of a pure method
NoTwin == [branches |-> <<>>]

NoResult == [fn |-> "none", depth |-> 0, value |-> 0]

CommitSelf(e, op) ==
    /\ branches' = e.branches
    /\ current_depth' = e.current_depth
    /\ next_id' = e.next_id
    /\ tree_center' = e.tree_center
    /\ click_count' = e.click_count
    /\ rng' = e.rng
    /\ report' = e.report
    /\ grown' = e.grown
    /\ loop_iters' = e.loop_iters
    /\ lastOp' = op

Commit(e, op) ==
    /\ CommitSelf(e, op)
    /\ UNCHANGED <<twin, out>>

Init ==
    /\ branches = <<>>
    /\ current_depth = 0
    /\ next_id = 0
    /\ tree_center = <<0, 0>>
    /\ click_count = 0
    /\ params \in InitParams
    /\ rng \in 0..(RngModulus - 1)
    /\ report = "none"
    /\ lastOp = "init"
    /\ grown = 0
    /\ config_changes = 0
    /\ loop_iters = 0
    /\ twin = NoTwin
    /\ out = NoResult

\* FractalTree.on_canvas_click(event)
on_canvas_click(x, y) ==
    /\ click_count < MaxClicks
    /\ LET e == IF click_count = 0
                THEN plant_trunk(Self, params, R(x), R(y))
                ELSE grow_one_level(Self, params)
       IN  Commit([e EXCEPT !.click_count = @ + 1],
                  IF click_count = 0 THEN "plant_trunk" ELSE "grow_one_level")
    /\ UNCHANGED <<params, config_changes>>

\* faulty variant of plant: self.click_count = 1 is forgotten
plant_no_count(x, y) ==
    /\ Commit(plant_trunk(Self, params, R(x), R(y)), "plant_trunk")
    /\ UNCHANGED <<params, config_changes>>

\* plant() of FractalTree.plant_trunk_dialog with entries int() accepts.  An
\* entry int() rejects raises ValueError before plant_trunk is called: the
\* handler shows an error box and assigns nothing, a stuttering step.
plant(x, y) ==
    /\ Commit([plant_trunk(Self, params, R(x), R(y)) EXCEPT !.click_count = 1],
              "plant_trunk")
    /\ UNCHANGED <<params, config_changes>>

\* the space key and the "Grow One Level" button
grow_one_level_command ==
    /\ Commit(grow_one_level(Self, params), "grow_one_level")
    /\ UNCHANGED <<params, config_changes>>

\* the "Grow Full Tree" button
grow_full_tree_command ==
    /\ Commit(grow_full_tree(Self, params), "grow_full_tree")
    /\ UNCHANGED <<params, config_changes>>

\* the r key and the "Reset" button
reset_tree_command ==
    /\ Commit(reset_tree(Self), "reset_tree")
    /\ UNCHANGED <<params, config_changes>>

\* the "Randomize Colors" button: seven draws, then redraw_tree
randomize_colors_command ==
    /\ config_changes < MaxConfigChanges
    /\ config_changes' = config_changes + 1
    /\ params' = randomize_colors(params, rng)
    /\ Commit([Self EXCEPT !.rng = RngAfter(@, 7)], "randomize_colors")

\* the "Apply" button of the settings dialog, then redraw_tree
apply_settings_command(v) ==
    /\ config_changes < MaxConfigChanges
    /\ config_changes' = config_changes + 1
    /\ params' = apply_settings(params, v)
    /\ Commit(Self, "apply_settings")

\* the g key
toggle_grid ==
    /\ config_changes < MaxConfigChanges
    /\ config_changes' = config_changes + 1
    /\ params' = [params EXCEPT !.show_grid = ~@]
    /\ Commit(Self, "toggle_grid")

Next ==
    \/ \E pt \in PlantPoints : on_canvas_click(pt[1], pt[2])
    \/ \E pt \in PlantPoints : plant(pt[1], pt[2])
    \/ grow_one_level_command
    \/ grow_full_tree_command
    \/ reset_tree_command
    \/ randomize_colors_command
    \/ \E v \in SettingsInputs : apply_settings_command(v)
    \/ toggle_grid

Spec == Init /\ [][Next]_vars

(***************************************************************************)
(* Direct calls of the pure methods get_branch_color and                   *)
(* calculate_thickness on a freshly constructed instance.                  *)
(***************************************************************************)

\* leaf palettes of one, two and three colours
Palettes ==
    { << <<2, 2, 12, 5, 5, 14>> >>,
      << <<1, 6, 6, 5, 3, 4>>, <<15, 5, 9, 14, 0, 11>> >>,
      DefaultParams.leaf_colors }

\* configurations of the instance the pure methods are called on
PureConfigs ==
    { [DefaultParams EXCEPT !.max_depth = d, !.leaf_colors = pal,
                            !.trunk_thickness = t, !.thickness_factor = f] :
        d \in 0..DepthBound, pal \in Palettes, t \in {R(5), R(20)},
        f \in {(5 * Scale) \div 10, (75 * Scale) \div 100,
               (9 * Scale) \div 10, (12 * Scale) \div 10} }

\* depth arguments of the calls
PureDepths == 0..(DepthBound + 1)

PureInit ==
    /\ branches = <<>>
    /\ current_depth = 0
    /\ next_id = 0
    /\ tree_center = <<0, 0>>
    /\ click_count = 0
    /\ params \in PureConfigs
    /\ rng = 0
    /\ report = "none"
    /\ lastOp = "init"
    /\ grown = 0
    /\ config_changes = 0
    /\ loop_iters = 0
    /\ twin = NoTwin
    /\ out = NoResult

\* tree.get_branch_color(depth)
call_get_branch_color(depth) ==
    /\ out' = [fn |-> "get_branch_color", depth |-> depth,
               value |-> get_branch_color(params, depth)]
    /\ UNCHANGED <<branches, current_depth, next_id, tree_center, click_count,
                   params, rng, report, lastOp, grown, config_changes,
                   loop_iters, twin>>

\* tree.calculate_thickness(depth)
call_calculate_thickness(depth) ==
    /\ out' = [fn |-> "calculate_thickness", depth |-> depth,
               value |-> calculate_thickness(params, depth)]
    /\ UNCHANGED <<branches, current_depth, next_id, tree_center, click_count,
                   params, rng, report, lastOp, grown, config_changes,
                   loop_iters, twin>>

PureNext ==
    \/ \E depth \in PureDepths : call_get_branch_color(depth)
    \/ \E depth \in PureDepths : call_calculate_thickness(depth)

SpecPure == PureInit /\ [][PureNext]_vars

(***************************************************************************)
(* Two FractalTree instances built with the same configuration and driven  *)
(* through the same calls; each has its own position in the random stream. *)
(***************************************************************************)

\* configurations with randomness = 0
TwinParams ==
    { [DefaultParams EXCEPT !.randomness = 0, !.max_depth = d,
                            !.upward_angle = u] :
        d \in 0..DepthBound, u \in BOOLEAN }

\* the second instance at the start of one of its methods
TwinSelf == [twin EXCEPT !.report = "none", !.loop_iters = 0]

TwinInit ==
    /\ branches = <<>>
    /\ current_depth = 0
    /\ next_id = 0
    /\ tree_center = <<0, 0>>
    /\ click_count = 0
    /\ params \in TwinParams
    /\ rng \in 0..(RngModulus - 1)
    /\ report = "none"
    /\ lastOp = "init"
    /\ grown = 0
    /\ config_changes = 0
    /\ loop_iters = 0
    /\ \E s \in 0..(RngModulus - 1) :
          twin = [branches |-> <<>>, current_depth |-> 0, next_id |-> 0,
                  tree_center |-> <<0, 0>>, click_count |-> 0, rng |-> s,
                  report |-> "none", grown |-> 0, loop_iters |-> 0]
    /\ out = NoResult

\* a.plant_trunk(x, y); b.plant_trunk(x, y)
twin_plant_trunk(x, y) ==
    /\ CommitSelf(plant_trunk(Self, params, R(x), R(y)), "plant_trunk")
    /\ twin' = plant_trunk(TwinSelf, params, R(x), R(y))
    /\ UNCHANGED <<params, config_changes, out>>

\* a.grow_one_level(); b.grow_one_level()
twin_grow_one_level ==
    /\ CommitSelf(grow_one_level(Self, params), "grow_one_level")
    /\ twin' = grow_one_level(TwinSelf, params)
    /\ UNCHANGED <<params, config_changes, out>>

\* a.grow_full_tree(); b.grow_full_tree()
twin_grow_full_tree ==
    /\ CommitSelf(grow_full_tree(Self, params), "grow_full_tree")
    /\ twin' = grow_full_tree(TwinSelf, params)
    /\ UNCHANGED <<params, config_changes, out>>

\* a.reset_tree(); b.reset_tree()
twin_reset_tree ==
    /\ CommitSelf(reset_tree(Self), "reset_tree")
    /\ twin' = reset_tree(TwinSelf)
    /\ UNCHANGED <<params, config_changes, out>>

TwinNext ==
    \/ \E pt \in PlantPoints : twin_plant_trunk(pt[1], pt[2])
    \/ twin_grow_one_level
    \/ twin_grow_full_tree
    \/ twin_reset_tree

SpecTwin == TwinInit /\ [][TwinNext]_vars

\* ================================================================ claims
IsPrefix(old, new) ==
    /\ Len(old) <= Len(new)
    /\ \A i \in 1..Len(old) : new[i] = old[i]

\* positions of the branches whose depth equals the depth counter
TerminalPositions == { i \in 1..Len(branches) : branches[i].depth = current_depth }

\* C1: after plant_trunk and exactly d successful grow_one_level calls (grown
\* = d, no reset or re-plant in between) the collection holds 2^(d+1) - 1
\* branches; a successful grow_one_level call appends exactly two branches per
\* branch whose depth equals the depth counter.
C1_BranchCount ==
    /\ [](Len(branches) # 0 => Len(branches) = 2 ^ (grown + 1) - 1)
    /\ [][lastOp' = "grow_one_level" /\ report' = "none"
            => /\ grown' = grown + 1
               /\ Len(branches') = Len(branches) + 2 * Cardinality(TerminalPositions)]_vars

C1_Witness ==
    /\ lastOp = "grow_one_level"
    /\ report = "none"
    /\ grown = 3
    /\ Len(branches) = 15

\* C2: in a non-empty collection exactly one branch has depth 0 and it is the
\* only one without a parent; every other branch's parent_id is the id of a
\* branch of the collection whose depth is one less; the parent links of every
\* branch lead to the trunk.
HasParentAt(b, k) ==
    /\ k \in 1..Len(branches)
    /\ branches[k].id = b.parent_id
    /\ branches[k].depth = b.depth - 1

RECURSIVE LeadsToTrunk(_, _)
LeadsToTrunk(i, fuel) ==
    IF branches[i].parent_id = None
    THEN branches[i].depth = 0
    ELSE /\ fuel > 0
         /\ HasParentAt(branches[i], branches[i].parent_id + 1)
         /\ LeadsToTrunk(branches[i].parent_id + 1, fuel - 1)

C2_TreeShape ==
    Len(branches) # 0 =>
        /\ Cardinality({ i \in 1..Len(branches) : branches[i].depth = 0 }) = 1
        /\ \A i \in 1..Len(branches) :
              /\ (branches[i].depth = 0) <=> (branches[i].parent_id = None)
              /\ branches[i].depth # 0 =>
                    \E k \in { branches[i].parent_id + 1 } : HasParentAt(branches[i], k)
              /\ LeadsToTrunk(i, Len(branches))

C2_Witness ==
    /\ Len(branches) = 7
    /\ branches[7].depth = 2
    /\ branches[branches[7].parent_id + 1].depth = 1
    /\ branches[branches[7].parent_id + 1].parent_id = 0

\* C3: a grow_one_level call made on an empty collection, or with the depth
\* counter >= max_depth, shows its message and leaves the collection, the depth
\* counter and the identifier counter as they were.
C3_RejectedGrowth ==
    [][lastOp' = "grow_one_level"
         /\ (Len(branches) = 0 \/ current_depth >= params.max_depth)
         => /\ report' = (IF Len(branches) = 0 THEN "plant_first" ELSE "max_depth")
            /\ branches' = branches
            /\ current_depth' = current_depth
            /\ next_id' = next_id]_vars

C3_Witness ==
    /\ lastOp = "grow_one_level"
    /\ report = "max_depth"
    /\ Len(branches) > 1
    /\ current_depth = params.max_depth

\* C4: grow_full_tree called on a non-empty collection makes at most max_depth
\* loop iterations, each raising the depth counter by one, returns with the
\* depth counter equal to max_depth, and shows no message.
C4_GrowFullTree ==
    [][lastOp' = "grow_full_tree" /\ Len(branches) # 0
         => /\ loop_iters' <= params.max_depth
            /\ current_depth' = current_depth + loop_iters'
            /\ current_depth' = params.max_depth
            /\ report' = "none"]_vars

\* C5: grow_full_tree called with the depth counter at (or past) max_depth
\* leaves the collection, the depth counter and the identifier counter as they
\* were.
C5_GrowFullTreeIdempotent ==
    [][lastOp' = "grow_full_tree" /\ current_depth >= params.max_depth
         => /\ branches' = branches
            /\ current_depth' = current_depth
            /\ next_id' = next_id]_vars

C5_Witness ==
    /\ lastOp = "grow_full_tree"
    /\ loop_iters = 0
    /\ current_depth = params.max_depth
    /\ current_depth = DepthBound
    /\ Len(branches) = 2 ^ (DepthBound + 1) - 1

\* C6: plant_trunk(x, y), from the canvas click or the dialog, leaves exactly
\* the trunk: id 0, no parent, depth 0, start (x, y), end (x, y - base_length)
\* at angle 270 when growth is upward and (x, y + base_length) at angle 90 when
\* downward, length base_length, thickness trunk_thickness, color trunk_color;
\* the depth counter is 0 and tree_center is (x, y).
PlantCall(x, y) ==
    \/ plant(x, y)
    \/ (click_count = 0 /\ on_canvas_click(x, y))

C6_PlantTrunk ==
    [][\A pt \in PlantPoints :
         PlantCall(pt[1], pt[2])
         => /\ branches' =
                 << [id |-> 0,
                     parent_id |-> None,
                     start |-> <<R(pt[1]), R(pt[2])>>,
                     end |-> <<R(pt[1]),
                               IF params.upward_angle
                               THEN R(pt[2]) - params.base_length
                               ELSE R(pt[2]) + params.base_length>>,
                     depth |-> 0,
                     length |-> params.base_length,
                     angle |-> IF params.upward_angle THEN R(270) ELSE R(90),
                     thickness |-> params.trunk_thickness,
                     color |-> params.trunk_color] >>
            /\ current_depth' = 0
            /\ tree_center' = <<R(pt[1]), R(pt[2])>>]_vars

C6_Witness ==
    /\ lastOp = "plant_trunk"
    /\ ~params.upward_angle
    /\ tree_center = <<R(300), R(400)>>
    /\ Len(branches) = 1
    /\ branches[1].end = <<R(300), R(400) + params.base_length>>
    /\ branches[1].angle = R(90)

\* C7: with randomness 0 a successful grow_one_level call appends, for the
\* t-th branch p whose depth equals the depth counter (collection order), a
\* child at angle p.angle - angle_variation and then one at p.angle +
\* angle_variation, both of length p.length * length_factor, starting at
\* p.end, one level deeper, with parent_id p.id.  For the trunk planted upward
\* with base_length 180, angle_variation 35 and length_factor 0.65 these are
\* angles 235 and 305 and length 117.
TerminalSeq == SelectSeq(branches, LAMBDA b : b.depth = current_depth)

ChildOf(c, p0, angle) ==
    /\ c.angle = angle
    /\ c.length = FMul(p0.length, params.length_factor)
    /\ c.start = p0.end
    /\ c.depth = p0.depth + 1
    /\ c.parent_id = p0.id

C7_DeterministicChildren ==
    [][lastOp' = "grow_one_level" /\ report' = "none" /\ params.randomness = 0
         => /\ Len(branches') = Len(branches) + 2 * Len(TerminalSeq)
            /\ \A t \in 1..Len(TerminalSeq) :
                  /\ ChildOf(branches'[Len(branches) + 2 * t - 1], TerminalSeq[t],
                             TerminalSeq[t].angle - params.angle_variation)
                  /\ ChildOf(branches'[Len(branches) + 2 * t], TerminalSeq[t],
                             TerminalSeq[t].angle + params.angle_variation)
            /\ ( /\ Len(branches) = 1
                 /\ branches[1].angle = R(270)
                 /\ branches[1].length = R(180)
                 /\ params.angle_variation = R(35)
                 /\ params.length_factor = (65 * Scale) \div 100 )
               => /\ branches'[2].angle = R(235)
                  /\ branches'[3].angle = R(305)
                  /\ branches'[2].length = R(117)
                  /\ branches'[3].length = R(117)
                  /\ branches'[2].depth = 1
                  /\ branches'[3].depth = 1
                  /\ branches'[2].start = branches[1].end
                  /\ branches'[3].start = branches[1].end]_vars

C7_Witness ==
    /\ lastOp = "grow_one_level"
    /\ report = "none"
    /\ params.randomness = 0
    /\ Len(branches) = 3
    /\ branches[1].start = <<R(600), R(700)>>
    /\ branches[1].end = <<R(600), R(520)>>
    /\ branches[2].angle = R(235)
    /\ branches[3].angle = R(305)
    /\ branches[2].length = R(117)
    /\ branches[2].start = <<R(600), R(520)>>

\* C8: every step other than plant_trunk and reset_tree (growth by one level
\* or to full depth, new settings, a new palette, the grid toggle) leaves the
\* old collection as a prefix of the new one, each stored branch equal field
\* for field.
C8_AppendOnly ==
    [][lastOp' \notin {"plant_trunk", "reset_tree"} => IsPrefix(branches, branches')]_vars

C8_Witness ==
    /\ lastOp = "apply_settings"
    /\ Len(branches) > 1
    /\ branches[1].length # params.base_length
    /\ branches[1].thickness # params.trunk_thickness
    /\ branches[2].length # FMul(branches[1].length, params.length_factor)

\* C9: reset_tree leaves the collection empty and the depth and identifier
\* counters at 0, and leaves the configuration and tree_center as they were.
C9_Reset ==
    [][lastOp' = "reset_tree"
         => /\ branches' = <<>>
            /\ current_depth' = 0
            /\ next_id' = 0
            /\ params' = params
            /\ tree_center' = tree_center]_vars

C9_Witness ==
    /\ lastOp = "reset_tree"
    /\ branches = <<>>
    /\ tree_center = <<R(300), R(400)>>
    /\ config_changes > 0
    /\ params.max_depth = 3

\* C10: the branch at position i (0-based) has id i, so the ids are pairwise
\* distinct and non-negative, and the identifier counter equals the number of
\* branches.
C10_SequentialIds ==
    /\ \A i \in 1..Len(branches) : branches[i].id = i - 1
    /\ \A i, k \in 1..Len(branches) : i # k => branches[i].id # branches[k].id
    /\ next_id = Len(branches)

C10_Witness ==
    /\ lastOp = "grow_full_tree"
    /\ loop_iters = 3
    /\ next_id = 15
    /\ branches[15].id = 14

\* C14: in every reachable state the depth counter is <= max_depth, also
\* after new settings were applied to a grown tree, and in a non-empty
\* collection the depth counter is the largest depth of any branch.
C14_DepthWithinMax ==
    /\ current_depth <= params.max_depth
    /\ Len(branches) # 0 =>
          /\ \A i \in 1..Len(branches) : branches[i].depth <= current_depth
          /\ \E i \in 1..Len(branches) : branches[i].depth = current_depth

\* C15: click_count is 0 exactly when the collection is empty; so a canvas
\* click plants the trunk only on an empty collection, never meets the
\* empty-tree rejection, and never replaces a planted tree.
C15_ClickCount ==
    /\ []((click_count = 0) <=> (Len(branches) = 0))
    /\ [][(\E pt \in PlantPoints : on_canvas_click(pt[1], pt[2]))
            => /\ (lastOp' = "plant_trunk") <=> (Len(branches) = 0)
               /\ report' # "plant_first"
               /\ Len(branches) # 0 => IsPrefix(branches, branches')]_vars

C15_Witness ==
    /\ click_count = MaxClicks
    /\ click_count > 1
    /\ lastOp = "grow_one_level"
    /\ report = "none"
    /\ Len(branches) > 1

\* C12 (as stated): for every configuration with a non-empty palette and
\* max_depth >= 0, get_branch_color(0) is the trunk colour and
\* get_branch_color(max_depth) is the last entry of leaf_colors.
C12_ColorEndpoints ==
    out.fn = "get_branch_color" =>
        /\ out.depth = 0 => out.value = params.trunk_color
        /\ out.depth = params.max_depth =>
              out.value = params.leaf_colors[Len(params.leaf_colors)]

\* C12 (amended): get_branch_color(0) is the trunk colour for every
\* max_depth >= 0, and get_branch_color(max_depth) is the last entry of
\* leaf_colors whenever max_depth >= 1; with max_depth = 0 the depth-0 test
\* comes first and the result is the trunk colour.
C12_ColorEndpointsAmended ==
    out.fn = "get_branch_color" =>
        /\ out.depth = 0 => out.value = params.trunk_color
        /\ (out.depth = params.max_depth /\ params.max_depth >= 1) =>
              out.value = params.leaf_colors[Len(params.leaf_colors)]

C12_Witness ==
    /\ out.fn = "get_branch_color"
    /\ params.max_depth = DepthBound
    /\ out.depth = params.max_depth
    /\ Len(params.leaf_colors) = 3
    /\ out.value = <<15, 5, 9, 14, 0, 11>>
    /\ out.value # params.leaf_colors[1]

\* C13: with 0 < thickness_factor < 1, calculate_thickness(depth) is at
\* least 1 and calculate_thickness(depth + 1) is not larger than it.
C13_ThicknessMonotone ==
    (/\ out.fn = "calculate_thickness"
     /\ 0 < params.thickness_factor
     /\ params.thickness_factor < Scale) =>
        /\ out.value >= Scale
        /\ calculate_thickness(params, out.depth + 1) <= out.value

C13_Witness ==
    /\ out.fn = "calculate_thickness"
    /\ params.thickness_factor = (5 * Scale) \div 10
    /\ params.trunk_thickness = R(5)
    /\ out.depth = 2
    /\ out.value > Scale
    /\ calculate_thickness(params, out.depth + 1) = Scale

\* C11: with randomness = 0, two instances with the same configuration and
\* planting point, driven through the same plant_trunk / grow_one_level /
\* grow_full_tree / reset_tree calls, hold identical branch lists and depth
\* counters after every call, whatever the random stream of each gives.
C11_Deterministic ==
    /\ twin.branches = branches
    /\ twin.current_depth = current_depth

C11_Witness ==
    /\ params.randomness = 0
    /\ twin.rng # rng
    /\ lastOp = "grow_full_tree"
    /\ current_depth = DepthBound
    /\ Len(branches) > 2 * DepthBound
    /\ twin.branches = branches
    /\ twin.current_depth = current_depth

====
